---------------------------- MODULE Spec2Model ----------------------------
(***************************************************************************)
(* A model of train_nn_model.ipynb: the notebook that loads one season of  *)
(* fantasy-football tables, joins and aggregates them into per-fixture     *)
(* player features, builds the train/test datasets, fits the network and   *)
(* saves it.  Each code cell of the notebook is one action; the tables are *)
(* sets of records; pandas' float columns are modelled as exact rationals  *)
(* extended with NaN and the two infinities.                               *)
(***************************************************************************)
EXTENDS Integers, Sequences, FiniteSets, TLC

VARIABLES
    pc,                         \* the next cell to execute
    failed,                     \* a cell raised: the run was aborted
    history,                    \* players_history (merged_gw.csv)
    player_team_points,         \* player_team_stats, cell at lines 268-270
    players_history_fixtures,   \* cell at lines 284-288
    team_point_stats,           \* cell at lines 302-309
    team_point_opp_stats,       \* cell at lines 324-331
    team_stats,                 \* cell at lines 345-350
    player_fixtures_team_stats, \* cell at lines 364-370
    player_fixture_stats,       \* cell at lines 384-391
    train_df, test_df,          \* cell at lines 432-438
    run,                        \* how many times the dataset cell has run
    first_split,                \* the partition the first run produced
    epoch, wait, best,          \* model.fit and its EarlyStopping callback
    stop_training,
    artifact                    \* times models/expected_points was written

vars == <<pc, failed, history, player_team_points, players_history_fixtures,
          team_point_stats,
          team_point_opp_stats, team_stats, player_fixtures_team_stats,
          player_fixture_stats, train_df, test_df, run, first_split,
          epoch, wait, best, stop_training, artifact>>

-----------------------------------------------------------------------------
(* Bounds of the model.                                                    *)

\* Fixtures of the modelled season.
NumFixtures == 11
\* Validation losses are drawn from 1..MaxLoss (and NaN, and "not logged").
MaxLoss == 2
\* How often the dataset cell is executed on the same table.
MaxRuns == 2

-----------------------------------------------------------------------------
(* Floats: exact rationals n/d (d > 0, lowest terms), NaN, +inf and -inf.  *)

Abs(x) == IF x < 0 THEN -x ELSE x

RECURSIVE GCD(_, _)
GCD(a, b) == IF b = 0 THEN a ELSE GCD(b, a % b)

NaN == [t |-> "nan", n |-> 0, d |-> 1]
PosInf == [t |-> "inf", n |-> 1, d |-> 1]
NegInf == [t |-> "inf", n |-> -1, d |-> 1]

Rat(n, d) ==
    LET s == IF d < 0 THEN -1 ELSE 1
        g == GCD(Abs(n), Abs(d))
    IN  [t |-> "num", n |-> (s * n) \div g, d |-> (s * d) \div g]

Num(n) == Rat(n, 1)

IsNaN(x) == x.t = "nan"
IsInf(x) == x.t = "inf"
IsNum(x) == x.t = "num"
Sign(x) == IF x.n > 0 THEN 1 ELSE IF x.n < 0 THEN -1 ELSE 0
InfOf(s) == IF s > 0 THEN PosInf ELSE NegInf

FNeg(x) == IF IsNum(x) THEN Rat(-x.n, x.d) ELSE IF IsInf(x) THEN InfOf(-x.n) ELSE NaN

\* IEEE-754 addition as numpy performs it on float64 columns.
FAdd(x, y) ==
    IF IsNaN(x) \/ IsNaN(y) THEN NaN
    ELSE IF IsInf(x) /\ IsInf(y) THEN (IF x.n = y.n THEN x ELSE NaN)
    ELSE IF IsInf(x) THEN x
    ELSE IF IsInf(y) THEN y
    ELSE Rat(x.n * y.d + y.n * x.d, x.d * y.d)

FSub(x, y) == FAdd(x, FNeg(y))

FMul(x, y) ==
    IF IsNaN(x) \/ IsNaN(y) THEN NaN
    ELSE IF IsInf(x) \/ IsInf(y)
         THEN (IF Sign(x) * Sign(y) = 0 THEN NaN ELSE InfOf(Sign(x) * Sign(y)))
    ELSE Rat(x.n * y.n, x.d * y.d)

\* True division of two columns: x/0 is +-inf, 0/0 is NaN, nothing raises.
FDiv(x, y) ==
    IF IsNaN(x) \/ IsNaN(y) THEN NaN
    ELSE IF IsInf(x) /\ IsInf(y) THEN NaN
    ELSE IF IsInf(x) THEN InfOf(x.n * (IF y.n < 0 THEN -1 ELSE 1))
    ELSE IF IsInf(y) THEN Num(0)
    ELSE IF y.n = 0
         THEN (IF x.n = 0 THEN NaN ELSE InfOf(x.n))
    ELSE Rat(x.n * y.d, x.d * y.n)

RECURSIVE SumOf(_, _)
\* The sum of field f over a set of rows (groupby(...)[f].sum()).
SumOf(rows, f) ==
    IF rows = {} THEN 0
    ELSE LET r == CHOOSE x \in rows : TRUE
         IN  r[f] + SumOf(rows \ {r}, f)

-----------------------------------------------------------------------------
(* The season's input tables.                                              *)

Teams == 1 .. 3
Fixtures == 1 .. NumFixtures

\* fixtures.csv: the last fixture shares its gameweek with the one before
\* it (a double gameweek for team 1); the others alternate home and away.
GameWeek(f) == IF f = NumFixtures THEN NumFixtures - 1 ELSE f
HomeTeam(f) == IF f = NumFixtures THEN 1 ELSE IF f % 2 = 1 THEN 1 ELSE 2
AwayTeam(f) == IF f = NumFixtures THEN 3 ELSE IF f % 2 = 1 THEN 2 ELSE 1
HomeScore(f) == f % 3
AwayScore(f) == (f + 1) % 2

\* players_raw.csv: the players that have rows in merged_gw.csv, and the
\* whole roster, which has one more player of team 1 who never appears in
\* a gameweek.
Players == 1 .. 3
Roster == 1 .. 4
PlayerTeam(p) == IF p \in Teams THEN p ELSE 1
FieldPosition(p) == IF p = 2 THEN "DEF" ELSE "MID"


\* A player's cell for one fixture of merged_gw.csv: no row at all, or a row
\* with the minutes played and the points earned.
Absent == [m |-> -1, p |-> 0]
Bench == [m |-> 0, p |-> 0]
Played(pts) == [m |-> 90, p |-> pts]

\* The seasons the model is run on.  Every player has a default cell for
\* the fixtures of their team and at most one exceptional fixture, which may
\* be a fixture their team does not play (a player who changed team).
Defaults == {Absent, Played(0), Played(1)}
ExcCells == {Absent, Bench, Played(5)}
ExcFixtures == {1, NumFixtures}
Profiles ==
    {pr \in [d : Defaults, e : {{}} \cup {{f} : f \in ExcFixtures}, c : ExcCells] :
        /\ pr.e = {} => pr.c = Absent
        /\ pr.e # {} => pr.c # pr.d}

PlaysIn(p, f) == PlayerTeam(p) \in {HomeTeam(f), AwayTeam(f)}

CellAt(pr, p, f) ==
    IF f \in pr.e THEN pr.c ELSE IF PlaysIn(p, f) THEN pr.d ELSE Absent

HistoryOf(prs) ==
    {[player |-> p, fixture |-> f,
      points |-> CellAt(prs[p], p, f).p, minutes |-> CellAt(prs[p], p, f).m] :
        <<p, f>> \in {x \in Players \X Fixtures : CellAt(prs[x[1]], x[1], x[2]) # Absent}}

Seasons == {HistoryOf(prs) : prs \in [Players -> Profiles]}

\* The seasons without an exceptional fixture.
RegularSeasons ==
    {HistoryOf(prs) : prs \in [Players -> {pr \in Profiles : pr.e = {}}]}

-----------------------------------------------------------------------------
(* Joiners and aggregators.                                                *)

\* get_team_score_stats: per team, the goals scored and conceded over all
\* fixtures the team plays.
GoalsScored(t) ==
    SumOf({[f |-> f, g |-> HomeScore(f)] : f \in {x \in Fixtures : HomeTeam(x) = t}}, "g")
    + SumOf({[f |-> f, g |-> AwayScore(f)] : f \in {x \in Fixtures : AwayTeam(x) = t}}, "g")

GoalsConceded(t) ==
    SumOf({[f |-> f, g |-> AwayScore(f)] : f \in {x \in Fixtures : HomeTeam(x) = t}}, "g")
    + SumOf({[f |-> f, g |-> HomeScore(f)] : f \in {x \in Fixtures : AwayTeam(x) = t}}, "g")

team_score_stats ==
    {[team |-> t, scored |-> GoalsScored(t), conceded |-> GoalsConceded(t)] :
        t \in {x \in Teams : \E f \in Fixtures : x \in {HomeTeam(f), AwayTeam(f)}}}

\* player_team_stats before the assigned column: player_teams inner-merged
\* with team_score_stats on 'Player Team ID'.
player_team_stats ==
    {[player |-> p, team |-> PlayerTeam(p), pos |-> FieldPosition(p),
      scored |-> s.scored, conceded |-> s.conceded] :
        <<p, s>> \in {x \in Roster \X team_score_stats : x[2].team = PlayerTeam(x[1])}}

\* 'Total Points' of players_raw.csv: the player's points over the season.
TotalPoints(hist, p) == SumOf({h \in hist : h.player = p}, "points")

\* df.groupby(['Player Team ID'])['Total Points'].sum(): a Series with one
\* entry per team of df, labelled by the team id.
TeamTotalPoints(df) ==
    {[label |-> t, value |-> SumOf({r \in df : r.team = t}, "total_points")] :
        t \in {r.team : r \in df}}

\* The value assign() gives the row labelled `label`: a Series is aligned
\* with the frame on the index labels, and a label the Series lacks gets
\* NaN.
AlignedAt(series, label) ==
    IF \E s \in series : s.label = label
    THEN Num((CHOOSE s \in series : s.label = label).value)
    ELSE NaN

\* player_team_stats: the merged frame, indexed by the player id, with the
\* assigned 'Team Total Points'.
PlayerTeamStats(hist) ==
    LET df == {[player |-> r.player, team |-> r.team,
                total_points |-> TotalPoints(hist, r.player)] :
                   r \in player_team_stats}
    IN  {[player |-> r.player, team |-> r.team,
          total_points |-> r.total_points,
          team_total_points |-> AlignedAt(TeamTotalPoints(df), r.player)] :
             r \in df}

\* 'Is Home?': the fixture's home team is the player's team.
IsHome(home, team) == home = team

\* Mutation of OppTeamID: the two branches exchanged.
OppTeamIDSwapped(is_home, home, away) == IF is_home THEN home ELSE away
\* 'Opp Team ID': row['Away Team ID'] if row['Is Home?'] else row['Home Team ID'].
OppTeamID(is_home, home, away) == IF is_home THEN away ELSE home

\* players_history_fixtures: the history inner-merged with the fixtures on
\* 'Fixture ID' and with player_team_stats on 'Player ID', then the two
\* assigned columns.
PlayersHistoryFixtures(hist) ==
    {[player |-> h.player, fixture |-> h.fixture,
      points |-> h.points, minutes |-> h.minutes,
      gw |-> GameWeek(h.fixture),
      home |-> HomeTeam(h.fixture), away |-> AwayTeam(h.fixture),
      team |-> s.team, pos |-> s.pos,
      scored |-> s.scored, conceded |-> s.conceded,
      is_home |-> IsHome(HomeTeam(h.fixture), s.team),
      opp |-> OppTeamID(IsHome(HomeTeam(h.fixture), s.team),
                        HomeTeam(h.fixture), AwayTeam(h.fixture))] :
        <<h, s>> \in {x \in hist \X player_team_stats :
                        x[1].fixture \in Fixtures /\ x[2].player = x[1].player}}

\* unstack(level=-1) makes one column per value of 'Is Home?' that occurs in
\* the table; the assigned columns read both, so a table with no home row or
\* no away row raises KeyError.
HasBothSides(phf) == (\E r \in phf : r.is_home) /\ (\E r \in phf : ~r.is_home)

\* One cell of the unstacked table: the group's sum, NaN where the group is
\* empty.
SideSum(rows) == IF rows = {} THEN NaN ELSE Num(SumOf(rows, "points"))

\* team_point_stats, one row per 'Player Team ID'.
TeamPointStats(phf) ==
    {LET home == SideSum({r \in phf : r.team = t /\ r.is_home})
         away == SideSum({r \in phf : r.team = t /\ ~r.is_home})
     IN  [team |-> t, home |-> home, away |-> away,
          total |-> FAdd(away, home), ratio |-> FDiv(away, home)] :
        t \in {r.team : r \in phf}}

\* team_point_opp_stats, one row per 'Opp Team ID' (renamed 'Team ID').
TeamPointOppStats(phf) ==
    {LET home == SideSum({r \in phf : r.opp = t /\ r.is_home})
         away == SideSum({r \in phf : r.opp = t /\ ~r.is_home})
     IN  [team |-> t, home |-> home, away |-> away,
          total |-> FAdd(away, home), ratio |-> FDiv(away, home)] :
        t \in {r.opp : r \in phf}}

\* Mutation of HomeAwayRatio: the raw ratio away/home.
RawRatio(away, home) == FDiv(away, home)
\* 'Total Points Home Away Ratio': 1-(1-away/home)/2.
HomeAwayRatio(away, home) ==
    FSub(Num(1), FDiv(FSub(Num(1), FDiv(away, home)), Num(2)))

\* team_stats, one row per 'Field Position ID'.
TeamStats(phf) ==
    {LET home == SideSum({r \in phf : r.pos = q /\ r.is_home})
         away == SideSum({r \in phf : r.pos = q /\ ~r.is_home})
     IN  [pos |-> q, home |-> home, away |-> away,
          ratio |-> HomeAwayRatio(away, home)] :
        q \in {r.pos : r \in phf}}


Has(tbl, key, v) == \E x \in tbl : x[key] = v
Lookup(tbl, key, v) == CHOOSE x \in tbl : x[key] = v

\* player_fixtures_team_stats: five inner merges onto players_history_fixtures;
\* the team totals merged in are the totals over the whole table.
PlayerFixturesTeamStats(phf, tps, tpo, ts) ==
    {r @@ [team_total |-> Lookup(tps, "team", r.team).total,
           opp_team_total |-> Lookup(tps, "team", r.opp).total,
           team_total_opps |-> Lookup(tpo, "team", r.team).total,
           opp_scored |-> Lookup(team_score_stats, "team", r.opp).scored,
           opp_conceded |-> Lookup(team_score_stats, "team", r.opp).conceded,
           ratio |-> Lookup(ts, "pos", r.pos).ratio] :
        r \in {x \in phf :
                 /\ Has(tps, "team", x.team)
                 /\ Has(tps, "team", x.opp)
                 /\ Has(tpo, "team", x.team)
                 /\ Has(team_score_stats, "team", x.opp)
                 /\ Has(ts, "pos", x.pos)}}

-----------------------------------------------------------------------------
(* Player-fixture stat calculator.                                         *)

\* Mutation of PlayedRows: >= 0 in place of > 0.
PlayedOrBenched(rows) == {r \in rows : r.minutes >= 0}
\* [lambda df: df['Game Minutes Played'] > 0]
PlayedRows(rows) == {r \in rows : r.minutes > 0}

\* The trailing window of 'Avg Minutes Played Recently To GW'.
RecentWindow == 3

\* A player's rows up to and including a row's fixture, and strictly before
\* it (fixture ids follow the kick-off times).
UpTo(rows, r) == {x \in rows : x.player = r.player /\ x.fixture <= r.fixture}
Before(rows, r) == {x \in rows : x.player = r.player /\ x.fixture < r.fixture}
Recent(rows, r) ==
    {x \in Before(rows, r) :
        Cardinality({y \in Before(rows, r) : y.fixture > x.fixture}) < RecentWindow}

\* mean() of a column over a group: NaN for the empty group.
Mean(rows, f) == IF rows = {} THEN NaN ELSE Rat(SumOf(rows, f), Cardinality(rows))

\* calc_player_fixture_stats: the to-gameweek columns of every row.
calc_player_fixture_stats(rows) ==
    {r @@ [gws_played |-> Cardinality({x.gw : x \in UpTo(rows, r)}),
           avg_points |-> Mean(Before(rows, r), "points"),
           avg_points_opp_adj |->
               FMul(Mean(Before(rows, r), "points"),
                    FDiv(r.team_total_opps, r.opp_team_total)),
           avg_minutes_recent |-> Mean(Recent(rows, r), "minutes"),
           goals_diff |-> r.conceded - r.opp_scored] :
        r \in rows}

PlayerFixtureStats(pfts) == calc_player_fixture_stats(PlayedRows(pfts))

-----------------------------------------------------------------------------
(* Dataset builder.                                                        *)

\* [lambda df: df['GWs Played To GW'] >= 10]
MinGWs == 10
\* nn_split(frac=0.8)
FracNum == 4
FracDen == 5

\* The selected columns; the index (Player ID, Fixture ID) stays on the row.
Select(r) ==
    [player |-> r.player, fixture |-> r.fixture,
     pos |-> r.pos, avg_points_opp_adj |-> r.avg_points_opp_adj,
     points |-> r.points, is_home |-> r.is_home,
     avg_minutes_recent |-> r.avg_minutes_recent, goals_diff |-> r.goals_diff]

\* A row dropna(how='any') drops: NaN in a float column (the other selected
\* columns are integers, booleans and strings taken from rows that exist).
HasMissing(row) == IsNaN(row.avg_points_opp_adj) \/ IsNaN(row.avg_minutes_recent)

\* Mutation of Filtered: the dropna left out.
FilteredNoDrop(pfs) == {Select(r) : r \in {x \in pfs : x.gws_played >= MinGWs}}
\* The filter, the selection and the dropna of the dataset cell.
Filtered(pfs) ==
    {row \in {Select(r) : r \in {x \in pfs : x.gws_played >= MinGWs}} : ~HasMissing(row)}

\* nn_split: a seeded shuffle of the rows; the first round(frac*N) of the
\* shuffled rows are the train partition, the rest of the table the test
\* partition.
Seed == 0
Mult == 37
Modulus == 101
RowPos(df, r) ==
    Cardinality({x \in df : x.player < r.player
                            \/ (x.player = r.player /\ x.fixture < r.fixture)})
ShuffleKey(df, r) == ((RowPos(df, r) + 1) * Mult + Seed) % Modulus
ShuffleRank(df, r) == Cardinality({x \in df : ShuffleKey(df, x) < ShuffleKey(df, r)})
SampleSize(n, num, den) == (2 * num * n + den) \div (2 * den)
nn_split(df, num, den) ==
    LET train == {r \in df : ShuffleRank(df, r) < SampleSize(Cardinality(df), num, den)}
    IN  <<train, df \ train>>

\* Mutation of TrainTestSplit: frac taken as the test fraction.
TrainTestSplitSwapped(df) == nn_split(df, FracDen - FracNum, FracDen)
\* .pipe(nn_split, frac=0.8)
TrainTestSplit(df) == nn_split(df, FracNum, FracDen)


-----------------------------------------------------------------------------
(* Model: fit with the EarlyStopping callback.                             *)

\* model.fit(..., epochs=60, ...)
Epochs == 60
\* EarlyStopping(monitor='val_loss', patience=100)
Patience == 100

\* Mutation of ShouldStop: a patience of 10.
ShouldStopTen(w) == w >= 10
\* The callback's test after a pass without improvement.
ShouldStop(w) == w >= Patience

\* The value of val_loss a pass logs; NotLogged when the logs hold none.
NotLogged == [t |-> "none", n |-> 0, d |-> 1]
ValLosses == {Num(k) : k \in 1 .. MaxLoss} \cup {NaN, NotLogged}

\* np.less(current, best): False when current is NaN; best starts at +inf.
Less(x, y) ==
    /\ IsNum(x)
    /\ \/ IsInf(y) /\ y.n > 0
       \/ IsNum(y) /\ x.n * y.d < y.n * x.d

-----------------------------------------------------------------------------
(* The run: the notebook's code cells, top to bottom.                      *)

Stages ==
    <<"load", "players_history_fixtures", "team_point_stats",
      "team_point_opp_stats", "team_stats", "player_fixtures_team_stats",
      "player_fixture_stats", "dataset", "model", "fit", "evaluate", "save",
      "done">>

StageIndex(s) == CHOOSE i \in DOMAIN Stages : Stages[i] = s

\* Mutation of NextStage: the save cell runs before fit.
NextStageSkipFit(s) ==
    IF s = "model" THEN "save" ELSE Stages[StageIndex(s) + 1]
\* The cell that runs after cell s has completed.
NextStage(s) == Stages[StageIndex(s) + 1]

tables == <<players_history_fixtures, team_point_stats, team_point_opp_stats,
            team_stats, player_fixtures_team_stats, player_fixture_stats>>
dataset == <<train_df, test_df, run, first_split>>
training == <<epoch, wait, best, stop_training>>

Init ==
    /\ pc = "load"
    /\ failed = FALSE
    /\ history = {}
    /\ player_team_points = {}
    /\ players_history_fixtures = {}
    /\ team_point_stats = {}
    /\ team_point_opp_stats = {}
    /\ team_stats = {}
    /\ player_fixtures_team_stats = {}
    /\ player_fixture_stats = {}
    /\ train_df = {}
    /\ test_df = {}
    /\ run = 0
    /\ first_split = <<{}, {}>>
    /\ epoch = 0
    /\ wait = 0
    /\ best = PosInf
    /\ stop_training = FALSE
    /\ artifact = 0

\* A cell raises: the run stops there and no later cell is executed.
Raise ==
    /\ pc' = "aborted"
    /\ failed' = TRUE

\* The loaders and the player/team tables: the season's files are read.
Load(seasons) ==
    /\ pc = "load"
    /\ \E h \in seasons : history' = h
    /\ player_team_points' = PlayerTeamStats(history')
    /\ pc' = NextStage(pc)
    /\ UNCHANGED <<failed, tables, dataset, training, artifact>>

JoinHistoryFixtures ==
    /\ pc = "players_history_fixtures"
    /\ players_history_fixtures' = PlayersHistoryFixtures(history)
    /\ pc' = NextStage(pc)
    /\ UNCHANGED <<failed, history, player_team_points, team_point_stats,
                   team_point_opp_stats, team_stats,
                   player_fixtures_team_stats, player_fixture_stats, dataset,
                   training, artifact>>

AggTeamPointStats ==
    /\ pc = "team_point_stats"
    /\ IF HasBothSides(players_history_fixtures)
       THEN /\ team_point_stats' = TeamPointStats(players_history_fixtures)
            /\ pc' = NextStage(pc)
            /\ UNCHANGED failed
       ELSE /\ Raise
            /\ UNCHANGED team_point_stats
    /\ UNCHANGED <<history, player_team_points, players_history_fixtures,
                   team_point_opp_stats, team_stats,
                   player_fixtures_team_stats, player_fixture_stats, dataset,
                   training, artifact>>

AggTeamPointOppStats ==
    /\ pc = "team_point_opp_stats"
    /\ IF HasBothSides(players_history_fixtures)
       THEN /\ team_point_opp_stats' = TeamPointOppStats(players_history_fixtures)
            /\ pc' = NextStage(pc)
            /\ UNCHANGED failed
       ELSE /\ Raise
            /\ UNCHANGED team_point_opp_stats
    /\ UNCHANGED <<history, player_team_points, players_history_fixtures,
                   team_point_stats, team_stats, player_fixtures_team_stats,
                   player_fixture_stats, dataset, training, artifact>>

AggTeamStats ==
    /\ pc = "team_stats"
    /\ IF HasBothSides(players_history_fixtures)
       THEN /\ team_stats' = TeamStats(players_history_fixtures)
            /\ pc' = NextStage(pc)
            /\ UNCHANGED failed
       ELSE /\ Raise
            /\ UNCHANGED team_stats
    /\ UNCHANGED <<history, player_team_points, players_history_fixtures,
                   team_point_stats, team_point_opp_stats,
                   player_fixtures_team_stats, player_fixture_stats, dataset,
                   training, artifact>>

MergeTeamStats ==
    /\ pc = "player_fixtures_team_stats"
    /\ player_fixtures_team_stats' =
           PlayerFixturesTeamStats(players_history_fixtures, team_point_stats,
                                   team_point_opp_stats, team_stats)
    /\ pc' = NextStage(pc)
    /\ UNCHANGED <<failed, history, player_team_points,
                   players_history_fixtures, team_point_stats,
                   team_point_opp_stats, team_stats, player_fixture_stats,
                   dataset, training, artifact>>

CalcPlayerFixtureStats ==
    /\ pc = "player_fixture_stats"
    /\ player_fixture_stats' = PlayerFixtureStats(player_fixtures_team_stats)
    /\ pc' = NextStage(pc)
    /\ UNCHANGED <<failed, history, player_team_points,
                   players_history_fixtures, team_point_stats,
                   team_point_opp_stats, team_stats,
                   player_fixtures_team_stats, dataset, training, artifact>>

BuildDataset ==
    /\ pc = "dataset"
    /\ LET split == TrainTestSplit(Filtered(player_fixture_stats))
       IN  /\ train_df' = split[1]
           /\ test_df' = split[2]
           /\ first_split' = IF run = 0 THEN split ELSE first_split
    /\ run' = run + 1
    /\ pc' = NextStage(pc)
    /\ UNCHANGED <<failed, history, player_team_points, tables, training,
                   artifact>> 
\* The dataset cell is executed again on the same table.
RerunDataset ==
    /\ pc = "model"
    /\ run < MaxRuns
    /\ pc' = "dataset"
    /\ UNCHANGED <<failed, history, player_team_points, tables, dataset,
                   training, artifact>> 
\* The feature columns, the network and compile(); fit then starts with the
\* callback's on_train_begin.
CreateModel ==
    /\ pc = "model"
    /\ epoch' = 0
    /\ wait' = 0
    /\ best' = PosInf
    /\ stop_training' = FALSE
    /\ pc' = NextStage(pc)
    /\ UNCHANGED <<failed, history, player_team_points, tables, dataset,
                   artifact>> 
\* One pass of fit, ended by the callback's on_epoch_end.
FitEpoch ==
    /\ pc = "fit"
    /\ epoch < Epochs
    /\ ~stop_training
    /\ epoch' = epoch + 1
    /\ \E current \in ValLosses :
          IF current = NotLogged
          THEN UNCHANGED <<wait, best, stop_training>>
          ELSE IF Less(current, best)
          THEN /\ best' = current
               /\ wait' = 0
               /\ UNCHANGED stop_training
          ELSE /\ wait' = wait + 1
               /\ stop_training' = ShouldStop(wait + 1)
               /\ UNCHANGED best
    /\ UNCHANGED <<pc, failed, history, player_team_points, tables, dataset,
                   artifact>> 
\* fit returns: the passes are used up or the callback asked to stop.
FitEnd ==
    /\ pc = "fit"
    /\ epoch = Epochs \/ stop_training
    /\ pc' = NextStage(pc)
    /\ UNCHANGED <<failed, history, player_team_points, tables, dataset,
                   training, artifact>> 
Evaluate ==
    /\ pc = "evaluate"
    /\ pc' = NextStage(pc)
    /\ UNCHANGED <<failed, history, player_team_points, tables, dataset,
                   training, artifact>> 
\* model.save('models/expected_points')
Save ==
    /\ pc = "save"
    /\ artifact' = artifact + 1
    /\ pc' = NextStage(pc)
    /\ UNCHANGED <<failed, history, player_team_points, tables, dataset,
                   training>> 
\* Any cell may raise for a reason outside the tables (a missing file, a full
\* disk, an interrupted kernel).
Fail ==
    /\ pc \notin {"done", "aborted"}
    /\ Raise
    /\ UNCHANGED <<history, player_team_points, tables, dataset, training,
                   artifact>> 
DataCells ==
    \/ JoinHistoryFixtures
    \/ AggTeamPointStats
    \/ AggTeamPointOppStats
    \/ AggTeamStats
    \/ MergeTeamStats
    \/ CalcPlayerFixtureStats
    \/ BuildDataset

ModelCells ==
    \/ CreateModel
    \/ FitEpoch
    \/ FitEnd
    \/ Evaluate
    \/ Save

\* One run of the whole notebook on a regular season.
Next ==
    \/ Load(RegularSeasons)
    \/ DataCells
    \/ ModelCells
    \/ Fail

Spec == Init /\ [][Next]_vars

\* The data cells on every season of the model, the dataset cell repeated.
DataNext ==
    \/ Load(Seasons)
    \/ DataCells
    \/ RerunDataset

DataSpec == Init /\ [][DataNext]_vars


-----------------------------------------------------------------------------
(* The engineered table of a season, as the data cells compute it.         *)

Engineered(hist) ==
    LET phf == PlayersHistoryFixtures(hist)
    IN  IF HasBothSides(phf)
        THEN PlayerFixtureStats(
                 PlayerFixturesTeamStats(phf, TeamPointStats(phf),
                                         TeamPointOppStats(phf), TeamStats(phf)))
        ELSE {}

\* The season as it stood after gameweek g: the later rows not yet played.
AsOfGameWeek(hist, g) == {h \in hist : GameWeek(h.fixture) <= g}

RatioTables == team_point_stats \cup team_point_opp_stats \cup team_stats

\* The selected feature columns and the target of a row hold no NaN.
Complete(r) == ~IsNaN(r.avg_points_opp_adj) /\ ~IsNaN(r.avg_minutes_recent)

SameKey(a, b) == a.player = b.player /\ a.fixture = b.fixture

-----------------------------------------------------------------------------
(* Claims.                                                                 *)

\* C1: in every row of the three ratio tables whose home total is zero the
\* ratio is a missing value (NaN), never an infinity.
C1_ZeroHomeRatioMissing ==
    \A row \in RatioTables : row.home = Num(0) => IsNaN(row.ratio)

\* C2: no leakage: every record of the engineered table at gameweek g has
\* the same derived columns in the season as it stood after gameweek g (a
\* season that agrees up to g and differs only later).
C2_NoLeakage ==
    \A r \in player_fixture_stats :
        \A r2 \in Engineered(AsOfGameWeek(history, r.gw)) :
            SameKey(r, r2) => r2 = r

\* C3: for every team of team_point_stats, home + away equals the total,
\* and the total is the sum of 'Game Total Points' over all of the team's
\* rows, also for a team with rows on one side only.
C3_HomePlusAwayIsTotal ==
    \A row \in team_point_stats :
        /\ IsNum(row.total)
        /\ row.total = FAdd(row.home, row.away)
        /\ row.total =
               Num(SumOf({r \in players_history_fixtures : r.team = row.team}, "points"))

\* C4: every row of train_df and test_df has 'GWs Played To GW' >= 10 and no
\* missing value in the selected columns, and every row of the engineered
\* table with both properties is in one of the two partitions.
C4_DatasetComplete ==
    run >= 1 =>
        /\ \A row \in train_df \cup test_df :
              /\ Complete(row)
              /\ \E r \in player_fixture_stats :
                    SameKey(r, row) /\ r.gws_played >= 10 /\ row = Select(r)
        /\ \A r \in player_fixture_stats :
              (r.gws_played >= 10 /\ Complete(r)) =>
                  \E row \in train_df \cup test_df : SameKey(r, row)

\* C4 witness: a dataset was built that kept a row, dropped a row for a
\* missing value and left out a row below ten gameweeks.
C4_Witness ==
    /\ run >= 1
    /\ train_df \cup test_df # {}
    /\ \E r \in player_fixture_stats : r.gws_played >= 10 /\ ~Complete(r)
    /\ \E r \in player_fixture_stats : r.gws_played < 10 /\ Complete(r)

\* C5: fit always runs exactly 60 passes: the callback never asks to stop,
\* no 61st pass is run and fit returns only after pass 60.
C5_AlwaysSixtyPasses ==
    /\ ~stop_training
    /\ epoch <= 60
    /\ pc \in {"evaluate", "save", "done"} => epoch = 60

\* C5 witness: fit returned after 60 passes none of which improved val_loss.
C5_Witness == pc = "evaluate" /\ epoch = 60 /\ wait = 60

C7_DampenedRatio ==
    \A row \in team_stats :
        LET rows == {r \in players_history_fixtures : r.pos = row.pos}
            h == SumOf({r \in rows : r.home = r.team}, "points")
            a == SumOf({r \in rows : r.home # r.team}, "points")
        IN  (IsNum(row.home) /\ IsNum(row.away) /\ h # 0) =>
                /\ row.home = Num(h) /\ row.away = Num(a)
                /\ IsNum(row.ratio)
                /\ 2 * row.ratio.n * h = (a + h) * row.ratio.d
                /\ (a * h >= 0) => 2 * row.ratio.n >= row.ratio.d
                /\ (h = 10 /\ a = 5) => row.ratio = Rat(3, 4)

\* C7 witness: a field position with home total 10 and away total 5.
C7_Witness ==
    \E row \in team_stats :
        row.home = Num(10) /\ row.away = Num(5) /\ row.ratio = Rat(3, 4)

\* C8: in every row of players_history_fixtures 'Is Home?' holds exactly
\* when the player's team is the fixture's home team, and 'Opp Team ID' is
\* one of the fixture's two teams and not the player's own team.
C8_IsHomeAndOpponent ==
    \A r \in players_history_fixtures :
        /\ r.is_home <=> (PlayerTeam(r.player) = HomeTeam(r.fixture))
        /\ r.opp \in {HomeTeam(r.fixture), AwayTeam(r.fixture)}
        /\ r.opp # PlayerTeam(r.player)

\* C8 witness: a home row, an away row and a row of a player whose team is
\* on neither side of the fixture.
C8_Witness ==
    /\ \E r \in players_history_fixtures : r.team = r.home
    /\ \E r \in players_history_fixtures : r.team = r.away
    /\ \E r \in players_history_fixtures : r.team \notin {r.home, r.away}

\* C9: within a player's rows 'GWs Played To GW' does not decrease with the
\* gameweek, it counts the distinct gameweeks of the player's rows with
\* minutes > 0 so far, no row with zero minutes is in the table, and a row
\* before the player's first minute has no value (it is not in the table).
C9_GWsPlayedToGW ==
    /\ \A r \in player_fixture_stats :
          /\ r.minutes > 0
          /\ r.gws_played =
                 Cardinality({x.gw : x \in {y \in player_fixtures_team_stats :
                                  /\ y.player = r.player
                                  /\ y.minutes > 0
                                  /\ y.fixture <= r.fixture}})
    /\ \A r1 \in player_fixture_stats : \A r2 \in player_fixture_stats :
          (r1.player = r2.player /\ r1.gw <= r2.gw) => r1.gws_played <= r2.gws_played
    /\ pc \notin {"load", "players_history_fixtures", "team_point_stats",
                  "team_point_opp_stats", "team_stats",
                  "player_fixtures_team_stats", "player_fixture_stats", "aborted"} =>
          \A x \in player_fixtures_team_stats :
              (\A y \in player_fixtures_team_stats :
                  (y.player = x.player /\ y.fixture <= x.fixture) => y.minutes = 0)
              => ~\E r \in player_fixture_stats : SameKey(r, x)

\* C9 witness: a player with a zero-minute row before the first minute, a
\* later count of at least two, and two counted rows in one gameweek.
C9_Witness ==
    \E r \in player_fixture_stats :
        /\ r.gws_played >= 2
        /\ \E x \in player_fixtures_team_stats :
              x.player = r.player /\ x.minutes = 0 /\ x.fixture < r.fixture
              /\ \A y \in player_fixtures_team_stats :
                    (y.player = x.player /\ y.fixture <= x.fixture) => y.minutes = 0
        /\ \E r1 \in player_fixture_stats : \E r2 \in player_fixture_stats :
              r1.fixture # r2.fixture /\ r1.gw = r2.gw /\ r1.player = r2.player

\* The component a cell belongs to.
Component(s) ==
    IF s = "load" THEN 1
    ELSE IF s = "dataset" THEN 3
    ELSE IF s \in {"model", "fit", "evaluate", "save", "done"} THEN 4
    ELSE 2

C11_TeamTotalPointsByTeam ==
    /\ \A r \in player_team_points :
           r.team_total_points =
               Num(SumOf({x \in player_team_points : x.team = r.team},
                         "total_points"))
    /\ \A a, b \in player_team_points :
           a.team = b.team => a.team_total_points = b.team_total_points

====
